---------------------------- MODULE Spec2Model ----------------------------
(* A model of system_inventory.py: one run of main() (argument parsing,   *)
(* collect_inventory, JSON / CSV export) against an operating system      *)
(* whose answers (load averages, boot time, mounts, interfaces, package   *)
(* manager) are inputs.                                                   *)
(*                                                                        *)
(* Python values are tagged records.  A str is a sequence of one-char     *)
(* strings.  A float is an integer number of halves (v = 3 is 1.5), or    *)
(* the not-a-number value.  A byte count given to human_bytes is a        *)
(* little-endian base-1024 numeral of five limbs, the top limb unbounded. *)
EXTENDS Integers, Sequences, FiniteSets, TLC

VARIABLES pc, host, args, tags, data, cmds, stdout, files, hb_n, hb_out

vars == <<pc, host, args, tags, data, cmds, stdout, files, hb_n, hb_out>>

----------------------------------------------------------------------------
(* Bounds of the model *)

MaxMounts == 3
MaxProbeMounts == 2
MaxIfaces == 2
MaxTagsLen == 4
MaxOutLines == 2
MaxHigh == 2
MaxClock == 6

----------------------------------------------------------------------------
(* Sequences and characters *)

RECURSIVE JoinWith(_, _)
JoinWith(sep, ss) ==
    IF ss = <<>> THEN <<>>
    ELSE IF Len(ss) = 1 THEN ss[1]
    ELSE ss[1] \o sep \o JoinWith(sep, Tail(ss))

RECURSIVE SelectIdx(_, _)
(* the subsequence of s at the indices in the set I, in order *)
SelectIdx(s, I) ==
    IF s = <<>> THEN <<>>
    ELSE LET rest == SelectIdx(Tail(s), {i - 1 : i \in I \ {1}})
         IN  IF 1 \in I THEN <<Head(s)>> \o rest ELSE rest

SeqsUpTo(S, n) == UNION {[1..k -> S] : k \in 0..n}

DigitChars == <<"0", "1", "2", "3", "4", "5", "6", "7", "8", "9">>

RECURSIVE NatChars(_)
(* str(n) for an int n >= 0 *)
NatChars(n) ==
    IF n < 10 THEN <<DigitChars[n + 1]>>
    ELSE NatChars(n \div 10) \o <<DigitChars[(n % 10) + 1]>>

IntChars(n) == IF n < 0 THEN <<"-">> \o NatChars(-n) ELSE NatChars(n)

DigitVal(c) == (CHOOSE i \in 1..10 : DigitChars[i] = c) - 1

IsDigit(c) == \E i \in 1..10 : DigitChars[i] = c

RECURSIVE CharsNat(_)
CharsNat(cs) ==
    IF cs = <<>> THEN 0
    ELSE 10 * CharsNat(SubSeq(cs, 1, Len(cs) - 1)) + DigitVal(cs[Len(cs)])

(* str.isspace for the characters of the model *)
Whitespace == {" ", "\n", "\t", "\r"}

----------------------------------------------------------------------------
(* Python values *)

None == [t |-> "None"]
PyBool(b) == [t |-> "bool", v |-> b]
PyInt(n) == [t |-> "int", v |-> n]
PyFloat(h) == [t |-> "float", nan |-> FALSE, v |-> h]
NaN == [t |-> "float", nan |-> TRUE, v |-> 0]
PyStr(cs) == [t |-> "str", v |-> cs]
PyList(xs) == [t |-> "list", v |-> xs]
PyDict(ks, vs) == [t |-> "dict", k |-> ks, v |-> vs]

Get(d, key) == d.v[CHOOSE i \in 1..Len(d.k) : d.k[i] = key]

(* int(x) of a float: truncation toward zero *)
TruncHalves(h) == IF h >= 0 THEN h \div 2 ELSE -((-h) \div 2)

(* repr(x) of a float held in halves: "1.5", "-0.5", "2.0", "nan" *)
FloatChars(x) ==
    IF x.nan THEN <<"n", "a", "n">>
    ELSE LET a == IF x.v < 0 THEN -x.v ELSE x.v
         IN  (IF x.v < 0 THEN <<"-">> ELSE <<>>)
             \o NatChars(a \div 2) \o <<".">>
             \o (IF a % 2 = 1 THEN <<"5">> ELSE <<"0">>)

----------------------------------------------------------------------------
(* human_bytes *)

symbols == << <<"B">>, <<"K", "B">>, <<"M", "B">>, <<"G", "B">>, <<"T", "B">> >>

(* the numeral of an int that fits the model's integers *)
Limbs(v) ==
    <<v % 1024, (v \div 1024) % 1024, (v \div 1048576) % 1024, v \div 1073741824, 0>>

RECURSIVE ScaleFrom(_, _, _, _)
ScaleFrom(n, c, j, carry) ==
    IF j > Len(n) THEN <<>>
    ELSE LET t == c * n[j] + carry
         IN  IF j = Len(n) THEN <<t>>
             ELSE <<t % 1024>> \o ScaleFrom(n, c, j + 1, t \div 1024)

(* the numeral of c * n *)
Scale(n, c) == ScaleFrom(n, c, 1, 0)

RECURSIVE HighPart(_, _)
(* floor(m / 1024^i) *)
HighPart(m, i) ==
    IF i >= Len(m) THEN 0
    ELSE IF i + 1 = Len(m) THEN m[Len(m)]
    ELSE m[i + 1] + 1024 * HighPart(m, i + 1)

(* (m mod 1024^i) compared with 1024^i / 2: -1 below, 0 equal, 1 above; i >= 1 *)
CmpHalf(m, i) ==
    IF m[i] > 512 THEN 1
    ELSE IF m[i] < 512 THEN -1
    ELSE IF \E j \in 1..(i - 1) : m[j] # 0 THEN 1 ELSE 0

(* f > 1024, the loop's test with the wrong comparison *)
FGt1024(n, i) ==
    IF i + 1 < Len(n)
    THEN \/ \E j \in (i + 3)..Len(n) : n[j] # 0
         \/ n[i + 2] > 1
         \/ n[i + 2] = 1 /\ \E j \in 1..(i + 1) : n[j] # 0
    ELSE n[Len(n)] > 1024 \/ (n[Len(n)] = 1024 /\ \E j \in 1..(Len(n) - 1) : n[j] # 0)

(* f >= 1024 where f = n / 1024^i *)
FGe1024(n, i) ==
    IF i + 1 < Len(n) THEN \E j \in (i + 2)..Len(n) : n[j] # 0
    ELSE n[Len(n)] >= 1024

RECURSIVE Carry(_, _)
(* n + 1024^(j - 1) *)
Carry(n, j) ==
    IF j = Len(n) \/ n[j] < 1023 THEN [n EXCEPT ![j] = n[j] + 1]
    ELSE Carry([n EXCEPT ![j] = 0], j + 1)

RECURSIVE BitsOver53(_, _)
(* how many low bits of n a double drops: the least s with n < 2^(53 + s) *)
BitsOver53(top, s) == IF top < 8192 THEN s ELSE BitsOver53(top \div 2, s + 1)

(* float(n): n rounded to 53 significant bits, ties to even; n < 2^62 *)
float_of(n) ==
    LET s == BitsOver53(n[Len(n)], 0)
        unit == 2 ^ s
        rem == n[1] % unit
        down == [n EXCEPT ![1] = n[1] - rem]
        odd == (n[1] \div unit) % 2 = 1
    IN  IF s = 0 \/ rem = 0 THEN n
        ELSE IF 2 * rem > unit \/ (2 * rem = unit /\ odd)
        THEN IF down[1] + unit = 1024 THEN Carry([down EXCEPT ![1] = 0], 2)
             ELSE [down EXCEPT ![1] = down[1] + unit]
        ELSE down

RECURSIVE hb_loop(_, _)
hb_loop(n, i) ==
    IF FGe1024(n, i) /\ i < Len(symbols) - 1 THEN hb_loop(n, i + 1) ELSE i

(* f"{f:.2f}": f in hundredths, correctly rounded, ties to even *)
Hundredths(n, i) ==
    LET m == Scale(n, 100)
        q == HighPart(m, i)
        c == IF i = 0 THEN -1 ELSE CmpHalf(m, i)
    IN  IF c > 0 \/ (c = 0 /\ q % 2 = 1) THEN q + 1 ELSE q

Fixed2(h) ==
    NatChars(h \div 100) \o <<".">>
    \o <<DigitChars[((h % 100) \div 10) + 1], DigitChars[(h % 10) + 1]>>

(* n is the numeral of the argument; f is float(n), divided exactly *)
human_bytes(n) ==
    LET f == float_of(n)
        i == hb_loop(f, 0)
    IN  Fixed2(Hundredths(f, i)) \o <<" ">> \o symbols[i + 1]

----------------------------------------------------------------------------
(* str methods used by the program *)

LowerChar(c) ==
    CASE c = "L" -> "l" [] c = "I" -> "i" [] c = "N" -> "n" [] c = "U" -> "u"
      [] c = "X" -> "x" [] c = "W" -> "w" [] OTHER -> c

lower(cs) == [i \in 1..Len(cs) |-> LowerChar(cs[i])]

RECURSIVE lstrip(_)
lstrip(cs) ==
    IF cs # <<>> /\ Head(cs) \in Whitespace THEN lstrip(Tail(cs)) ELSE cs

RECURSIVE rstrip(_)
rstrip(cs) ==
    IF cs # <<>> /\ cs[Len(cs)] \in Whitespace
    THEN rstrip(SubSeq(cs, 1, Len(cs) - 1)) ELSE cs

strip(cs) == rstrip(lstrip(cs))

RECURSIVE split_from(_, _, _)
split_from(cs, sep, cur) ==
    IF cs = <<>> THEN <<cur>>
    ELSE IF Head(cs) = sep THEN <<cur>> \o split_from(Tail(cs), sep, <<>>)
    ELSE split_from(Tail(cs), sep, Append(cur, Head(cs)))

(* cs.split(sep) for a one-character separator *)
split(cs, sep) == split_from(cs, sep, <<>>)

RECURSIVE nonblank_unstripped(_)
(* [t for t in segs if t.strip()]: the segments kept, not trimmed *)
nonblank_unstripped(segs) ==
    IF segs = <<>> THEN <<>>
    ELSE (IF strip(Head(segs)) # <<>> THEN <<Head(segs)>> ELSE <<>>)
         \o nonblank_unstripped(Tail(segs))

RECURSIVE nonblank_stripped(_)
(* [t.strip() for t in segs if t.strip()] *)
nonblank_stripped(segs) ==
    IF segs = <<>> THEN <<>>
    ELSE LET t == strip(Head(segs))
         IN  (IF t # <<>> THEN <<t>> ELSE <<>>) \o nonblank_stripped(Tail(segs))

(* main: the tags given to collect_inventory; a is args.tags, None or a str *)
parse_tags(a) ==
    IF a.t = "None" \/ a.v = <<>> THEN <<>>
    ELSE nonblank_stripped(split(a.v, ","))

----------------------------------------------------------------------------
(* The operating system's answers, fixed parts *)

Linux == <<"L", "i", "n", "u", "x">>
Windows == <<"W", "i", "n">>
UpperLinux == <<"L", "I", "N", "U", "X">>

DefaultHost ==
    [system |-> Linux, loadavg |-> "ok", cpu_freq |-> "ok",
     boot_raises |-> FALSE, boot |-> 10, now |-> 31,
     mem_total |-> 1610612736,
     mounts |-> << [device |-> 1, usage |-> "ok"] >>,
     addrs |-> << [ifname |-> <<"l", "o">>,
                   addrs |-> << [family |-> "AF_INET", address |-> <<"1">>] >>] >>,
     stats |-> << [ifname |-> <<"l", "o">>, isup |-> TRUE] >>,
     dpkg_exists |-> TRUE, rpm_exists |-> FALSE,
     dpkg_cmd |-> [kind |-> "ok", out |-> << <<"p">> >>],
     rpm_cmd |-> [kind |-> "ok", out |-> << <<"q">> >>]]

----------------------------------------------------------------------------
(* collect_inventory *)

(* get_uptime_seconds: time.time() - psutil.boot_time(), in halves *)
get_uptime_seconds(h) ==
    IF h.boot_raises THEN NaN ELSE PyFloat(h.now - h.boot)

(* the three load averages, or None three times *)
load_averages(h) ==
    IF h.loadavg = "ok" THEN <<PyFloat(1), PyFloat(2), PyFloat(3)>>
    ELSE <<None, None, None>>

disk_entry(p) ==
    PyDict(<<"device", "fstype", "total_bytes", "used_bytes", "free_bytes",
             "percent_used">>,
           <<PyStr(<<"d", DigitChars[p.device + 1]>>), PyStr(<<"e", "x", "t">>),
             PyInt(1000 * p.device), PyInt(400 * p.device), PyInt(600 * p.device),
             PyFloat(80)>>)

RECURSIVE disk_loop_break(_, _)
(* a loop that a PermissionError ends: break, where the code continues *)
disk_loop_break(parts, disks) ==
    IF parts = <<>> THEN [raised |-> FALSE, disks |-> disks]
    ELSE LET p == Head(parts)
         IN  IF p.usage = "ok"
             THEN disk_loop_break(Tail(parts), Append(disks, disk_entry(p)))
             ELSE IF p.usage = "PermissionError" THEN [raised |-> FALSE, disks |-> disks]
             ELSE [raised |-> TRUE, disks |-> disks]

RECURSIVE disk_loop(_, _)
(* the loop over psutil.disk_partitions(): PermissionError skips the mount, *)
(* any other error leaves the function                                     *)
disk_loop(parts, disks) ==
    IF parts = <<>> THEN [raised |-> FALSE, disks |-> disks]
    ELSE LET p == Head(parts)
         IN  IF p.usage = "ok" THEN disk_loop(Tail(parts), Append(disks, disk_entry(p)))
             ELSE IF p.usage = "PermissionError" THEN disk_loop(Tail(parts), disks)
             ELSE [raised |-> TRUE, disks |-> disks]

(* ifname in stats / stats.get(ifname).isup, stats a sequence of entries *)
InStats(stats, ifname) == \E i \in 1..Len(stats) : stats[i].ifname = ifname
StatsGet(stats, ifname) ==
    stats[CHOOSE i \in 1..Len(stats) : stats[i].ifname = ifname]

(* an is_up that reports a missing interface as down *)
is_up_default_false(stats, ifname) ==
    PyBool(InStats(stats, ifname) /\ StatsGet(stats, ifname).isup)

is_up(stats, ifname) ==
    IF InStats(stats, ifname) THEN PyBool(StatsGet(stats, ifname).isup) ELSE None

RECURSIVE addresses_of(_, _)
(* the addresses of one family, in order; IPv6 loses its %zone *)
addresses_of(addr_list, family) ==
    IF addr_list = <<>> THEN <<>>
    ELSE LET a == Head(addr_list)
         IN  (IF a.family = family
              THEN <<PyStr(IF family = "AF_INET6"
                           THEN split(a.address, "%")[1] ELSE a.address)>>
              ELSE <<>>)
             \o addresses_of(Tail(addr_list), family)

nic_entry(stats, e) ==
    PyDict(<<"iface", "is_up", "ipv4", "ipv6">>,
           <<PyStr(e.ifname), is_up(stats, e.ifname),
             PyList(addresses_of(e.addrs, "AF_INET")),
             PyList(addresses_of(e.addrs, "AF_INET6"))>>)

RECURSIVE nic_loop(_, _)
nic_loop(addrs, stats) ==
    IF addrs = <<>> THEN <<>>
    ELSE <<nic_entry(stats, Head(addrs))>> \o nic_loop(Tail(addrs), stats)

(* len([l for l in out.splitlines() if l.strip()]) *)
count_lines(out) == Len(nonblank_stripped(out))

pkg_result(manager, cmd) ==
    IF cmd.kind = "ok"
    THEN PyDict(<<"manager", "count">>, <<PyStr(manager), PyInt(count_lines(cmd.out))>>)
    ELSE None

(* a package block that asks rpm after a failed dpkg query *)
pkg_probe_fallthrough(h) ==
    IF lower(h.system) = <<"l", "i", "n", "u", "x">>
    THEN IF h.dpkg_exists /\ h.dpkg_cmd.kind = "ok"
         THEN [cmds |-> <<"dpkg-query">>,
               summary |-> pkg_result(<<"d", "p", "k", "g">>, h.dpkg_cmd)]
         ELSE IF h.rpm_exists
         THEN [cmds |-> (IF h.dpkg_exists THEN <<"dpkg-query">> ELSE <<>>) \o <<"rpm">>,
               summary |-> pkg_result(<<"r", "p", "m">>, h.rpm_cmd)]
         ELSE [cmds |-> IF h.dpkg_exists THEN <<"dpkg-query">> ELSE <<>>,
               summary |-> None]
    ELSE [cmds |-> <<>>, summary |-> None]

(* the package block: the summary and the commands it ran *)
pkg_probe(h) ==
    IF lower(h.system) = <<"l", "i", "n", "u", "x">>
    THEN IF h.dpkg_exists
         THEN [cmds |-> <<"dpkg-query">>,
               summary |-> pkg_result(<<"d", "p", "k", "g">>, h.dpkg_cmd)]
         ELSE IF h.rpm_exists
         THEN [cmds |-> <<"rpm">>, summary |-> pkg_result(<<"r", "p", "m">>, h.rpm_cmd)]
         ELSE [cmds |-> <<>>, summary |-> None]
    ELSE [cmds |-> <<>>, summary |-> None]

InfoKeys ==
    <<"timestamp", "hostname", "fqdn", "os", "cpu", "memory", "uptime_seconds",
      "disks", "network", "packages", "tags">>

(* the errors psutil.cpu_freq() raises on a platform without frequency support *)
CpuFreqRaises == {"NotImplementedError", "AttributeError"}

(* the outcomes of psutil.cpu_freq(): a reading, None, or an error raised *)
CpuFreqs == {"ok", "None"} \cup CpuFreqRaises

(* the record collect_inventory builds once every probe before it has returned;
   psutil.cpu_freq() is called while it is built, and not raising is its precondition *)
info(h, disks, nics, pkg_summary, tg) ==
    LET la == load_averages(h)
    IN  PyDict(InfoKeys,
          <<PyStr(<<"T", "Z">>), PyStr(<<"h">>), PyStr(<<"h", ".", "x">>),
            PyDict(<<"system", "release", "version", "machine", "processor">>,
                   <<PyStr(h.system), PyStr(<<"6">>), PyStr(<<"1">>),
                     PyStr(<<"x">>), PyStr(<<>>)>>),
            PyDict(<<"physical_cores", "logical_cpus", "loadavg_1m", "loadavg_5m",
                     "loadavg_15m", "freq_mhz">>,
                   <<PyInt(2), PyInt(4), la[1], la[2], la[3],
                     IF h.cpu_freq = "ok" THEN PyFloat(4800) ELSE None>>),
            PyDict(<<"total_bytes", "available_bytes", "percent_used">>,
                   <<PyInt(h.mem_total), PyInt(h.mem_total \div 2), PyFloat(85)>>),
            get_uptime_seconds(h),
            PyList(disks),
            PyList(nics),
            pkg_summary,
            PyList([i \in 1..Len(tg) |-> PyStr(tg[i])])>>)

(* collect_inventory(tags): raised, or the record; cmds are the commands run.  An
   error of disk_usage other than PermissionError leaves from the disk loop; an error
   of psutil.cpu_freq() leaves from the building of the record, after the package query *)
collect_inventory(h, tg) ==
    LET d == disk_loop(h.mounts, <<>>)
    IN  IF d.raised
        THEN [raised |-> TRUE, value |-> None, cmds |-> <<>>]
        ELSE LET pk == pkg_probe(h)
             IN  IF h.cpu_freq \in CpuFreqRaises
                 THEN [raised |-> TRUE, value |-> None, cmds |-> pk.cmds]
                 ELSE [raised |-> FALSE,
                       value |-> info(h, d.disks, nic_loop(h.addrs, h.stats),
                                      pk.summary, tg),
                       cmds |-> pk.cmds]

----------------------------------------------------------------------------
(* json.dumps and json.loads, on tokens: punctuation, literals (null, true, *)
(* false, NaN, numbers) as their text, strings as their escaped text, keys  *)

Punct(c) == [k |-> "p", v |-> <<c>>]
Lit(cs) == [k |-> "lit", v |-> cs]
NewlineTok == [k |-> "ws", v |-> <<"\n">>]

RECURSIVE json_escape(_)
json_escape(cs) ==
    IF cs = <<>> THEN <<>>
    ELSE LET c == Head(cs)
         IN  (CASE c = "\"" -> <<"\\", "\"">>
                [] c = "\\" -> <<"\\", "\\">>
                [] c = "\n" -> <<"\\", "n">>
                [] c = "\r" -> <<"\\", "r">>
                [] c = "\t" -> <<"\\", "t">>
                [] OTHER -> <<c>>) \o json_escape(Tail(cs))

RECURSIVE json_unescape(_)
json_unescape(cs) ==
    IF cs = <<>> THEN <<>>
    ELSE IF Head(cs) = "\\" /\ Len(cs) >= 2
    THEN LET c == cs[2]
         IN  <<CASE c = "n" -> "\n" [] c = "r" -> "\r" [] c = "t" -> "\t"
                 [] OTHER -> c>> \o json_unescape(Tail(Tail(cs)))
    ELSE <<Head(cs)>> \o json_unescape(Tail(cs))

RECURSIVE dumps(_, _)
RECURSIVE dump_items(_, _, _)
(* the tokens of items i.. of a list or a dict, separated by commas *)
dump_items(c, i, indent) ==
    LET n == Len(c.v)
        item == (IF c.t = "dict" THEN <<[k |-> "key", v |-> c.k[i]], Punct(":")>>
                 ELSE <<>>) \o dumps(c.v[i], indent)
    IN  IF i > n THEN <<>>
        ELSE IF i = n THEN item
        ELSE item \o <<Punct(",")>> \o (IF indent THEN <<NewlineTok>> ELSE <<>>)
             \o dump_items(c, i + 1, indent)

(* json.dumps(v, indent = 2 if indent else None) *)
dumps(v, indent) ==
    CASE v.t = "None" -> <<Lit(<<"n", "u", "l", "l">>)>>
      [] v.t = "bool" -> <<Lit(IF v.v THEN <<"t", "r", "u", "e">>
                               ELSE <<"f", "a", "l", "s", "e">>)>>
      [] v.t = "int" -> <<Lit(IntChars(v.v))>>
      [] v.t = "float" -> <<Lit(IF v.nan THEN <<"N", "a", "N">> ELSE FloatChars(v))>>
      [] v.t = "str" -> <<[k |-> "str", v |-> json_escape(v.v)]>>
      [] OTHER ->
           LET open == IF v.t = "dict" THEN "{" ELSE "["
               close == IF v.t = "dict" THEN "}" ELSE "]"
               ws == IF indent /\ v.v # <<>> THEN <<NewlineTok>> ELSE <<>>
           IN  <<Punct(open)>> \o ws \o dump_items(v, 1, indent) \o ws
               \o <<Punct(close)>>

(* a number's text to an int or a float (halves) *)
parse_number(cs) ==
    LET neg == cs[1] = "-"
        body == IF neg THEN Tail(cs) ELSE cs
        dots == {i \in 1..Len(body) : body[i] = "."}
    IN  IF dots = {}
        THEN PyInt(IF neg THEN -CharsNat(body) ELSE CharsNat(body))
        ELSE LET d == CHOOSE i \in dots : TRUE
                 whole == CharsNat(SubSeq(body, 1, d - 1))
                 h == 2 * whole + (IF body[d + 1] = "5" THEN 1 ELSE 0)
             IN  PyFloat(IF neg THEN -h ELSE h)

parse_literal(cs) ==
    IF cs = <<"n", "u", "l", "l">> THEN None
    ELSE IF cs = <<"t", "r", "u", "e">> THEN PyBool(TRUE)
    ELSE IF cs = <<"f", "a", "l", "s", "e">> THEN PyBool(FALSE)
    ELSE IF cs = <<"N", "a", "N">> THEN NaN
    ELSE parse_number(cs)

IsPunct(tok, c) == tok.k = "p" /\ tok.v = <<c>>

RECURSIVE parse_value(_)
RECURSIVE parse_list(_, _)
RECURSIVE parse_dict(_, _, _)
(* the items of a list, after its "[" or a ","; acc are the values so far *)
parse_list(toks, acc) ==
    IF IsPunct(toks[1], "]") THEN [v |-> PyList(acc), rest |-> Tail(toks)]
    ELSE IF IsPunct(toks[1], ",") THEN parse_list(Tail(toks), acc)
    ELSE LET r == parse_value(toks)
         IN  parse_list(r.rest, Append(acc, r.v))

parse_dict(toks, ks, vs) ==
    IF IsPunct(toks[1], "}") THEN [v |-> PyDict(ks, vs), rest |-> Tail(toks)]
    ELSE IF IsPunct(toks[1], ",") THEN parse_dict(Tail(toks), ks, vs)
    ELSE LET r == parse_value(Tail(Tail(toks)))
         IN  parse_dict(r.rest, Append(ks, toks[1].v), Append(vs, r.v))

parse_value(toks) ==
    LET tok == toks[1]
    IN  CASE tok.k = "lit" -> [v |-> parse_literal(tok.v), rest |-> Tail(toks)]
          [] tok.k = "str" -> [v |-> PyStr(json_unescape(tok.v)), rest |-> Tail(toks)]
          [] IsPunct(tok, "[") -> parse_list(Tail(toks), <<>>)
          [] OTHER -> parse_dict(Tail(toks), <<>>, <<>>)

(* json.loads: whitespace is skipped *)
loads(toks) == parse_value(SelectSeq(toks, LAMBDA tok : tok.k # "ws")).v

----------------------------------------------------------------------------
(* write_csv *)

fieldnames ==
    <<<<"t", "i", "m", "e", "s", "t", "a", "m", "p">>,
       <<"h", "o", "s", "t", "n", "a", "m", "e">>,
       <<"f", "q", "d", "n">>,
       <<"o", "s", "_", "s", "y", "s", "t", "e", "m">>,
       <<"o", "s", "_", "r", "e", "l", "e", "a", "s", "e">>,
       <<"l", "o", "g", "i", "c", "a", "l", "_", "c", "p", "u", "s">>,
       <<"m", "e", "m", "_", "t", "o", "t", "a", "l">>,
       <<"m", "e", "m", "_", "u", "s", "e", "d", "_", "p", "c", "t">>,
       <<"u", "p", "t", "i", "m", "e", "_", "s", "e", "c", "o", "n", "d", "s">>,
       <<"d", "i", "s", "k", "_", "c", "o", "u", "n", "t">>,
       <<"i", "f", "a", "c", "e", "_", "c", "o", "u", "n", "t">>,
       <<"t", "a", "g", "s">>>>

(* what csv writes for a value: "" for None, str() for numbers *)
csv_str(v) ==
    CASE v.t = "None" -> <<>>
      [] v.t = "str" -> v.v
      [] v.t = "int" -> IntChars(v.v)
      [] v.t = "float" -> FloatChars(v)

RECURSIVE double_quotes(_)
double_quotes(cs) ==
    IF cs = <<>> THEN <<>>
    ELSE (IF Head(cs) = "\"" THEN <<"\"", "\"">> ELSE <<Head(cs)>>)
         \o double_quotes(Tail(cs))

(* a writer that never quotes *)
csv_quote_none(cs) == cs

(* QUOTE_MINIMAL: a field with the delimiter, the quote or a line break is quoted *)
csv_quote(cs) ==
    IF \E i \in 1..Len(cs) : cs[i] \in {",", "\"", "\r", "\n"}
    THEN <<"\"">> \o double_quotes(cs) \o <<"\"">>
    ELSE cs

csv_line(fields) ==
    JoinWith(<<",">>, [i \in 1..Len(fields) |-> csv_quote(fields[i])]) \o <<"\r", "\n">>

(* the uptime rounded down instead of truncated *)
uptime_int_floor(u) == PyInt(IF u.nan THEN 0 ELSE u.v \div 2)

(* int(u if u == u else 0) *)
uptime_int(u) == PyInt(IF u.nan THEN 0 ELSE TruncHalves(u.v))

csv_row(d) ==
    LET tg == Get(d, "tags").v
    IN  <<Get(d, "timestamp"), Get(d, "hostname"), Get(d, "fqdn"),
          Get(Get(d, "os"), "system"), Get(Get(d, "os"), "release"),
          Get(Get(d, "cpu"), "logical_cpus"),
          PyStr(human_bytes(Limbs(Get(Get(d, "memory"), "total_bytes").v))),
          Get(Get(d, "memory"), "percent_used"),
          uptime_int(Get(d, "uptime_seconds")),
          PyInt(Len(Get(d, "disks").v)),
          PyInt(Len(Get(d, "network").v)),
          PyStr(JoinWith(<<",">>, [i \in 1..Len(tg) |-> tg[i].v]))>>

(* the text write_csv writes: the header and the row *)
write_csv(d) ==
    LET row == csv_row(d)
    IN  csv_line(fieldnames) \o csv_line([i \in 1..Len(row) |-> csv_str(row[i])])

----------------------------------------------------------------------------
(* Inputs: command lines and hosts *)

Formats == {"json", "csv"}
(* --out absent, --out "" and --out o *)
OutPaths == {None, PyStr(<<>>), PyStr(<<"o">>)}

(* -h/--help: absent, ahead of the other options, or after them *)
Helps == {"no", "first", "last"}

(* command lines that parse_args accepts *)
ArgsOf(fmts, outs, pretties, tagargs) ==
    [format : fmts, out : outs, pretty : pretties, tags : tagargs, help : {"no"}]

(* command lines at large: --format may name a format that is not a choice *)
CommandLines(outs, pretties, tagargs) ==
    [format : Formats \cup {"xml"}, out : outs, pretty : pretties, tags : tagargs,
     help : Helps]

(* the words of the help message that -h/--help prints, its two non-breaking
   hyphens (U+2011) written "-"; the line layout follows the terminal's width *)
UsageText ==
    <<"usage:", "system_inventory.py", "[-h]", "[--format", "{csv,json}]", "[--out",
      "OUT]", "[--pretty]", "[--tags", "TAGS]",
      "Collect", "system", "inventory", "and", "export", "to", "CSV", "or", "JSON",
      "options:",
      "-h,", "--help", "show", "this", "help", "message", "and", "exit",
      "--format", "{csv,json}",
      "--out", "OUT", "Output", "file", "(default:", "stdout)",
      "--pretty", "Pretty-print", "JSON",
      "--tags", "TAGS", "Comma-separated", "tags", "to", "add,", "e.g.", "'lab,linux'">>

(* bool(args.out) *)
OutGiven(a) == a.out.t = "str" /\ a.out.v # <<>>

(* how ap.parse_args() ends: options are taken from left to right, -h prints the help
   message and exits 0, a --format outside the choices exits 2 *)
parse_args(a) ==
    IF a.help = "first" THEN "help"
    ELSE IF a.format \notin Formats THEN "error"
    ELSE IF a.help = "last" THEN "help"
    ELSE "ok"

TagChars == {"a", ",", " ", "\n", "\r", "\""}
TagArgs == {None} \cup {PyStr(cs) : cs \in SeqsUpTo(TagChars, MaxTagsLen)}

Usages == {"ok", "PermissionError", "OSError"}

(* mount lists: the i-th mount is device i *)
MountLists ==
    {[i \in 1..Len(us) |-> [device |-> i, usage |-> us[i]]] : us \in SeqsUpTo(Usages, MaxProbeMounts)}

(* mount lists with any device at any place *)
MountListsAny == SeqsUpTo([device : {1, 2}, usage : Usages], MaxMounts)

IfNames == {<<"l", "o">>, <<"e", "0">>, <<"w", "0">>}

AddrLists ==
    { << [family |-> "AF_INET", address |-> <<"1">>],
         [family |-> "AF_PACKET", address |-> <<"m">>],
         [family |-> "AF_INET6", address |-> <<"f", "%", "e">>] >>,
      << [family |-> "AF_INET6", address |-> <<"f">>],
         [family |-> "AF_INET", address |-> <<"2">>],
         [family |-> "AF_INET", address |-> <<"1">>] >> }

(* address tables: distinct interface names, in any order *)
AddrTables ==
    {t \in SeqsUpTo([ifname : IfNames, addrs : AddrLists], MaxIfaces) :
        \A i, j \in 1..Len(t) : t[i].ifname = t[j].ifname => i = j}

RECURSIVE StatsOf(_, _)
(* the statistics table of the interfaces in S, f their up/down states *)
StatsOf(S, f) ==
    IF S = {} THEN <<>>
    ELSE LET n == CHOOSE x \in S : TRUE
         IN  <<[ifname |-> n, isup |-> f[n]]>> \o StatsOf(S \ {n}, f)

StatsTables == UNION {{StatsOf(S, f) : f \in [S -> BOOLEAN]} : S \in SUBSET IfNames}

OutLines == {<<"p">>, <<" ">>, <<>>}

DpkgCmds ==
    {[kind |-> "ok", out |-> o] : o \in SeqsUpTo(OutLines, MaxOutLines)}
    \cup {[kind |-> "TimeoutExpired", out |-> <<>>],
          [kind |-> "CalledProcessError", out |-> <<>>]}

RpmCmds ==
    {[kind |-> "ok", out |-> << <<"q">>, <<"r">> >>],
     [kind |-> "TimeoutExpired", out |-> <<>>],
     [kind |-> "FileNotFoundError", out |-> <<>>]}

(* clock readings, in halves of a second *)
Clock == 0..MaxClock

----------------------------------------------------------------------------
(* The run *)

NoNumeral == <<0, 0, 0, 0, 0>>

InitRun(hosts, argset) ==
    /\ pc = "start"
    /\ host \in hosts
    /\ args \in argset
    /\ tags = <<>>
    /\ data = None
    /\ cmds = <<>>
    /\ stdout = <<>>
    /\ files = <<>>
    /\ hb_n = NoNumeral
    /\ hb_out = <<>>

(* a main that opens its output file before it collects *)
ParseArgsOpensOut ==
    /\ pc = "start"
    /\ LET r == parse_args(args)
       IN  /\ pc' = CASE r = "help" -> "exit0" [] r = "error" -> "exit2" [] OTHER -> "parsed"
           /\ stdout' = IF r = "help"
                        THEN Append(stdout, [fmt |-> "usage", text |-> UsageText])
                        ELSE stdout
           /\ tags' = IF r = "ok" THEN parse_tags(args.tags) ELSE tags
           /\ files' = IF r = "ok" /\ OutGiven(args)
                       THEN Append(files, [path |-> args.out.v, fmt |-> args.format,
                                           text |-> <<>>])
                       ELSE files
    /\ UNCHANGED <<host, args, data, cmds, hb_n, hb_out>>

(* main, up to the call of collect_inventory: parse_args prints the help message and
   exits 0, or rejects the command line and exits 2, or returns and the tags are parsed *)
ParseArgs ==
    /\ pc = "start"
    /\ LET r == parse_args(args)
       IN  /\ pc' = CASE r = "help" -> "exit0" [] r = "error" -> "exit2" [] OTHER -> "parsed"
           /\ stdout' = IF r = "help"
                        THEN Append(stdout, [fmt |-> "usage", text |-> UsageText])
                        ELSE stdout
           /\ tags' = IF r = "ok" THEN parse_tags(args.tags) ELSE tags
    /\ UNCHANGED <<host, args, data, cmds, files, hb_n, hb_out>>

(* data = collect_inventory(tags = tags); an error it raises ends the run *)
CollectInventory ==
    /\ pc = "parsed"
    /\ LET r == collect_inventory(host, tags)
       IN  /\ pc' = IF r.raised THEN "fatal" ELSE "collected"
           /\ data' = r.value
           /\ cmds' = r.cmds
    /\ UNCHANGED <<host, args, tags, stdout, files, hb_n, hb_out>>

(* the destination of the export: the file args.out when args.out is true, else
   standard output *)
Emit(fmt, text) ==
    IF ~OutGiven(args)
    THEN /\ stdout' = Append(stdout, [fmt |-> fmt, text |-> text])
         /\ UNCHANGED files
    ELSE /\ files' = Append(files, [path |-> args.out.v, fmt |-> fmt, text |-> text])
         /\ UNCHANGED stdout

(* main, format json: the dump and a line break, to the file or printed *)
DumpJson ==
    /\ pc = "collected"
    /\ args.format = "json"
    /\ Emit("json", dumps(data, args.pretty) \o <<NewlineTok>>)
    /\ pc' = "done"
    /\ UNCHANGED <<host, args, tags, data, cmds, hb_n, hb_out>>

(* main, format csv *)
WriteCsv ==
    /\ pc = "collected"
    /\ args.format = "csv"
    /\ Emit("csv", write_csv(data))
    /\ pc' = "done"
    /\ UNCHANGED <<host, args, tags, data, cmds, hb_n, hb_out>>

Next == ParseArgs \/ CollectInventory \/ DumpJson \/ WriteCsv

(* every probe's outcome varies; mounts are numbered by their place *)
HostsAll ==
    {[DefaultHost EXCEPT !.loadavg = la, !.cpu_freq = cf, !.boot_raises = br,
                         !.mounts = ms, !.system = pk[1], !.dpkg_exists = pk[2],
                         !.dpkg_cmd = pk[3]] :
        la \in {"ok", "AttributeError", "OSError"}, cf \in CpuFreqs,
        br \in BOOLEAN, ms \in MountLists,
        pk \in {<<Linux, TRUE, [kind |-> "ok", out |-> << <<"p">> >>]>>,
                <<Linux, TRUE, [kind |-> "TimeoutExpired", out |-> <<>>]>>,
                <<Linux, FALSE, [kind |-> "ok", out |-> <<>>]>>,
                <<Windows, TRUE, [kind |-> "ok", out |-> <<>>]>>}}

Init ==
    InitRun(HostsAll,
            CommandLines(OutPaths, BOOLEAN, {None, PyStr(<<"a", ",", "b">>)}))

Spec == Init /\ [][Next]_vars

(* the mounts vary *)
InitDisks ==
    InitRun({[DefaultHost EXCEPT !.mounts = ms] : ms \in MountListsAny},
            ArgsOf(Formats, OutPaths, {FALSE}, {None}))

SpecDisks == InitDisks /\ [][Next]_vars

(* the address table and the statistics table vary *)
InitNet ==
    InitRun({[DefaultHost EXCEPT !.addrs = a, !.stats = st] :
                a \in AddrTables, st \in StatsTables},
            ArgsOf(Formats, {None}, {FALSE}, {None}))

SpecNet == InitNet /\ [][Next]_vars

(* the OS family, the package managers present and their commands' outcomes vary *)
InitPkg ==
    InitRun({[DefaultHost EXCEPT !.system = sy, !.dpkg_exists = de, !.rpm_exists = re,
                                 !.dpkg_cmd = dc, !.rpm_cmd = rc] :
                sy \in {Linux, UpperLinux, Windows}, de \in BOOLEAN, re \in BOOLEAN,
                dc \in DpkgCmds, rc \in RpmCmds},
            ArgsOf(Formats, {None}, {FALSE}, {None}))

SpecPkg == InitPkg /\ [][Next]_vars

(* --tags varies *)
InitTags ==
    InitRun({DefaultHost}, ArgsOf(Formats, OutPaths, {FALSE}, TagArgs))

SpecTags == InitTags /\ [][Next]_vars

(* the clock and the boot time vary *)
InitUptime ==
    InitRun({[DefaultHost EXCEPT !.now = n, !.boot = b, !.boot_raises = br] :
                n \in Clock, b \in Clock, br \in BOOLEAN},
            ArgsOf(Formats, OutPaths, {FALSE}, {None}))

SpecUptime == InitUptime /\ [][Next]_vars

----------------------------------------------------------------------------
(* human_bytes alone *)

LimbChoices == {0, 1, 5, 6, 128, 512, 1023}
TopChoices ==
    {0, 1, 512, 1023} \cup {1024 * h : h \in 1..MaxHigh}
    \cup {8192 + h : h \in 0..MaxHigh}

(* 9007215747415409, which float() rounds across a two-decimal boundary *)
RoundedAcross == <<369, 655, 368, 15, 8192>>

Numerals ==
    {<<a, b, c, d, e>> : a \in LimbChoices, b \in LimbChoices, c \in {0, 1, 1023},
                         d \in {0, 1, 1023}, e \in TopChoices}
    \cup {RoundedAcross}

InitHB ==
    /\ pc = "hb"
    /\ hb_n \in Numerals
    /\ hb_out = <<>>
    /\ host = DefaultHost
    /\ args = [format |-> "json", out |-> None, pretty |-> FALSE, tags |-> None,
               help |-> "no"]
    /\ tags = <<>>
    /\ data = None
    /\ cmds = <<>>
    /\ stdout = <<>>
    /\ files = <<>>

HumanBytes ==
    /\ pc = "hb"
    /\ pc' = "hb_done"
    /\ hb_out' = human_bytes(hb_n)
    /\ UNCHANGED <<host, args, tags, data, cmds, stdout, files, hb_n>>

SpecHB == InitHB /\ [][HumanBytes]_vars

----------------------------------------------------------------------------
(* What a run has written *)

Collected == pc \in {"collected", "done"}

(* the text of the export, once written *)
OutText == IF stdout # <<>> THEN stdout[1].text ELSE files[1].text

CsvWritten == pc = "done" /\ args.format = "csv"
JsonWritten == pc = "done" /\ args.format = "json"

(* A CSV reader, by places: a place is quoted when an odd number of quote *)
(* characters precede it                                                  *)
Kth(S, k) == CHOOSE x \in S : Cardinality({y \in S : y < x}) = k - 1

RECURSIVE undouble(_)
undouble(cs) ==
    IF cs = <<>> THEN <<>>
    ELSE IF Head(cs) = "\"" /\ Len(cs) >= 2 /\ cs[2] = "\""
    THEN <<"\"">> \o undouble(Tail(Tail(cs)))
    ELSE <<Head(cs)>> \o undouble(Tail(cs))

(* the value of a field as written *)
unquote(raw) ==
    IF raw # <<>> /\ raw[1] = "\"" THEN undouble(SubSeq(raw, 2, Len(raw) - 1)) ELSE raw

(* the records of a text, each the sequence of its fields *)
CsvRecords(text) ==
    LET quotes == {i \in 1..Len(text) : text[i] = "\""}
        open(i) == Cardinality({q \in quotes : q < i}) % 2 = 0
        (* the last place of each record's line end *)
        ends == {i \in 1..Len(text) :
                    /\ open(i)
                    /\ \/ text[i] = "\n"
                       \/ text[i] = "\r" /\ ~(i < Len(text) /\ text[i + 1] = "\n")}
        commas == {i \in 1..Len(text) : open(i) /\ text[i] = ","}
        first(r) == IF r = 1 THEN 1 ELSE Kth(ends, r - 1) + 1
        (* the place after the record's last field *)
        stop(r) ==
            LET e == Kth(ends, r)
            IN  IF text[e] = "\n" /\ e > 1 /\ text[e - 1] = "\r" /\ open(e - 1)
                THEN e - 1 ELSE e
        seps(r) == {c \in commas : first(r) <= c /\ c < stop(r)}
        field(r, f) ==
            LET a == IF f = 1 THEN first(r) ELSE Kth(seps(r), f - 1) + 1
                b == IF f = Cardinality(seps(r)) + 1 THEN stop(r) ELSE Kth(seps(r), f)
            IN  unquote(SubSeq(text, a, b - 1))
    IN  [r \in 1..Cardinality(ends) |-> [f \in 1..(Cardinality(seps(r)) + 1) |-> field(r, f)]]

(* the lines of a text: each ends with CR LF, a lone LF or a lone CR *)
TextLines(text) ==
    Cardinality({i \in 1..Len(text) :
                    \/ text[i] = "\n"
                    \/ text[i] = "\r" /\ ~(i < Len(text) /\ text[i + 1] = "\n")})

HasLineBreak(cs) == \E i \in 1..Len(cs) : cs[i] \in {"\r", "\n"}

----------------------------------------------------------------------------
(* Claims about collect_inventory and the order of main *)

(* every failure the host answers with is one of the recoverable ones: load averages,
   CPU frequency or boot time unsupported, mounts denying permission, package manager
   absent or failing; no mount failing otherwise *)
Recoverable == \A i \in 1..Len(host.mounts) : host.mounts[i].usage # "OSError"

PackagesExpectedAbsent ==
    \/ lower(host.system) # <<"l", "i", "n", "u", "x">>
    \/ ~host.dpkg_exists /\ ~host.rpm_exists
    \/ host.dpkg_exists /\ host.dpkg_cmd.kind # "ok"
    \/ ~host.dpkg_exists /\ host.rpm_exists /\ host.rpm_cmd.kind # "ok"

(* C1: under any combination of the recoverable conditions collect_inventory
   does not raise; it returns a record with the eleven keys, and the fields
   of the failed probes hold None (not-a-number for the uptime). *)
C1_RecoverableNeverRaises ==
    (pc \in {"fatal", "collected", "done"} /\ Recoverable) =>
        /\ pc # "fatal"
        /\ data.t = "dict"
        /\ data.k = <<"timestamp", "hostname", "fqdn", "os", "cpu", "memory",
                      "uptime_seconds", "disks", "network", "packages", "tags">>
        /\ host.loadavg # "ok" =>
              /\ Get(Get(data, "cpu"), "loadavg_1m") = None
              /\ Get(Get(data, "cpu"), "loadavg_5m") = None
              /\ Get(Get(data, "cpu"), "loadavg_15m") = None
        /\ host.cpu_freq # "ok" => Get(Get(data, "cpu"), "freq_mhz") = None
        /\ host.boot_raises => Get(data, "uptime_seconds").nan
        /\ PackagesExpectedAbsent => Get(data, "packages") = None

(* the usage snapshot the record holds for device dv *)
ExpectedDisk(dv) ==
    PyDict(<<"device", "fstype", "total_bytes", "used_bytes", "free_bytes",
             "percent_used">>,
           <<PyStr(<<"d", DigitChars[dv + 1]>>), PyStr(<<"e", "x", "t">>),
             PyInt(1000 * dv), PyInt(400 * dv), PyInt(600 * dv), PyFloat(80)>>)

OkMounts == SelectIdx(host.mounts, {i \in 1..Len(host.mounts) : host.mounts[i].usage = "ok"})

(* C2: when every usage query succeeds or raises permission-denied, the run
   is not aborted and 'disks' is exactly the subsequence of the mounts whose
   query succeeded, in enumeration order. *)
C2_DisksAreTheReadableMounts ==
    /\ (pc = "fatal") => ~Recoverable
    /\ Collected =>
          /\ Recoverable
          /\ Get(data, "disks").v = [i \in 1..Len(OkMounts) |-> ExpectedDisk(OkMounts[i].device)]

C2_Witness ==
    /\ pc = "collected"
    /\ Len(host.mounts) = 3
    /\ host.mounts[1].usage = "ok"
    /\ host.mounts[2].usage = "PermissionError"
    /\ host.mounts[3].usage = "ok"
    /\ host.mounts[1].device # host.mounts[3].device
    /\ Len(Get(data, "disks").v) = 2

(* collect_inventory has not returned a record: the run has not reached the call, or
   left at parse_args, or the call raised *)
NotCollected == pc \in {"start", "exit0", "exit2", "parsed", "fatal"}

(* C8, as stated: in every run nothing is written to standard output and no
   output file is opened before collect_inventory has returned successfully. *)
C8_NothingWrittenBeforeCollected ==
    NotCollected => (stdout = <<>> /\ files = <<>>)

(* C8: before collect_inventory has returned successfully no output file is
   opened, and nothing is written to standard output but the help message of
   a run that -h/--help ends at parse_args; a run whose command line was
   rejected, or whose collection ended in a fatal error, has written nothing
   to standard output. *)
C8_OnlyHelpWrittenBeforeCollected ==
    NotCollected =>
        /\ files = <<>>
        /\ stdout \in {<<>>, <<[fmt |-> "usage", text |-> UsageText]>>}
        /\ (stdout # <<>>) => (pc = "exit0" /\ args.help # "no")
        /\ (pc = "exit0") => stdout # <<>>

C8_Witness ==
    /\ pc = "fatal"
    /\ args.format = "json"
    /\ args.out = None
    /\ \E i \in 1..Len(host.mounts) : host.mounts[i].usage = "OSError"
    /\ stdout = <<>>

LinuxFamily == host.system \in {Linux, UpperLinux}

(* the number of lines of a command's output that are not blank *)
NonBlankLines(out) ==
    Cardinality({i \in 1..Len(out) : \E j \in 1..Len(out[i]) : out[i][j] \notin Whitespace})

(* C9: at most one package-manager command is invoked: dpkg exactly when on
   Linux its path exists, rpm exactly when on Linux the dpkg path does not
   exist and the rpm path does, none on another OS family; 'packages' is
   {manager, count} of the queried manager when its command succeeded and
   None in every other case. *)
C9_AtMostOnePackageQuery ==
    Collected =>
        LET ran(c) == \E i \in 1..Len(cmds) : cmds[i] = c
            pkgs == Get(data, "packages")
        IN  /\ Len(cmds) <= 1
            /\ ran("dpkg-query") <=> (LinuxFamily /\ host.dpkg_exists)
            /\ ran("rpm") <=> (LinuxFamily /\ ~host.dpkg_exists /\ host.rpm_exists)
            /\ IF ran("dpkg-query") /\ host.dpkg_cmd.kind = "ok"
               THEN pkgs = PyDict(<<"manager", "count">>,
                                  <<PyStr(<<"d", "p", "k", "g">>),
                                    PyInt(NonBlankLines(host.dpkg_cmd.out))>>)
               ELSE IF ran("rpm") /\ host.rpm_cmd.kind = "ok"
               THEN pkgs = PyDict(<<"manager", "count">>,
                                  <<PyStr(<<"r", "p", "m">>),
                                    PyInt(NonBlankLines(host.rpm_cmd.out))>>)
               ELSE pkgs = None

C9_Witness ==
    /\ pc = "collected"
    /\ host.system = Linux
    /\ host.dpkg_exists
    /\ host.rpm_exists
    /\ host.dpkg_cmd.kind = "TimeoutExpired"
    /\ host.rpm_cmd.kind = "ok"
    /\ cmds = <<"dpkg-query">>
    /\ Get(data, "packages") = None

(* C10: 'network' has one entry per interface of the address table, in its
   order; is_up is None exactly when the interface is missing from the
   statistics table and is the recorded up/down state otherwise. *)
C10_NetworkFollowsAddressTable ==
    Collected =>
        LET net == Get(data, "network").v
            known(n) == \E j \in 1..Len(host.stats) : host.stats[j].ifname = n
        IN  /\ Len(net) = Len(host.addrs)
            /\ \A i \in 1..Len(net) :
                  LET n == host.addrs[i].ifname
                      up == Get(net[i], "is_up")
                  IN  /\ Get(net[i], "iface") = PyStr(n)
                      /\ (up = None) <=> ~known(n)
                      /\ \A j \in 1..Len(host.stats) :
                            host.stats[j].ifname = n => up = PyBool(host.stats[j].isup)

C10_Witness ==
    /\ pc = "collected"
    /\ Len(host.addrs) = 2
    /\ \E j \in 1..Len(host.stats) :
          host.stats[j].ifname = host.addrs[2].ifname /\ ~host.stats[j].isup
    /\ \A j \in 1..Len(host.stats) : host.stats[j].ifname # host.addrs[1].ifname
    /\ Get(Get(data, "network").v[1], "is_up") = None
    /\ Get(Get(data, "network").v[2], "is_up") = PyBool(FALSE)

----------------------------------------------------------------------------
(* Claims about the tags and the exports *)

TagText == IF args.tags = None THEN <<>> ELSE args.tags.v

(* a segment is named by the place of the comma before it, 0 for the first *)
SegStarts(s) == {0} \cup {i \in 1..Len(s) : s[i] = ","}
SegEnd(s, b) ==
    LET after == {i \in (b + 1)..Len(s) : s[i] = ","} \cup {Len(s) + 1}
    IN  CHOOSE e \in after : \A x \in after : e <= x
(* the places of the segment's characters that are not whitespace *)
SegBody(s, b) == {i \in (b + 1)..(SegEnd(s, b) - 1) : s[i] \notin Whitespace}
SegKept(s) == {b \in SegStarts(s) : SegBody(s, b) # {}}
SegTrimmed(s, b) ==
    LET body == SegBody(s, b)
        lo == CHOOSE i \in body : \A x \in body : i <= x
        hi == CHOOSE i \in body : \A x \in body : i >= x
    IN  SubSeq(s, lo, hi)

(* C6: the tags are the comma-separated segments of --tags, each trimmed of
   surrounding whitespace, the empty and whitespace-only ones dropped, in
   their order and with duplicates kept; no or an empty --tags gives the
   empty sequence; the record's 'tags' field holds them. *)
C6_TagsAreTrimmedSegments ==
    /\ (pc \in {"parsed", "fatal", "collected", "done"}) =>
          /\ Len(tags) = Cardinality(SegKept(TagText))
          /\ \A b \in SegKept(TagText) :
                tags[1 + Cardinality({x \in SegKept(TagText) : x < b})]
                    = SegTrimmed(TagText, b)
    /\ Collected => Get(data, "tags") = PyList([i \in 1..Len(tags) |-> PyStr(tags[i])])

C6_Witness ==
    /\ pc = "collected"
    /\ args.tags = PyStr(<<"a", ",", " ", "a">>)
    /\ Get(data, "tags") = PyList(<<PyStr(<<"a">>), PyStr(<<"a">>)>>)

(* C3 as stated: the CSV output has exactly 2 lines and 12 fields on each. *)
C3_TwoLinesOfTwelveFields ==
    CsvWritten =>
        LET recs == CsvRecords(OutText)
        IN  /\ TextLines(OutText) = 2
            /\ Len(recs) = 2
            /\ \A i \in 1..Len(recs) : Len(recs[i]) = 12

(* C3, amended: the CSV output is exactly 2 records, the header and one row,
   of 12 fields each, the last field of the row being the tags joined with
   commas; it is exactly 2 lines of text exactly when no tag holds a line
   break. *)
C3_TwoRecordsOfTwelveFields ==
    CsvWritten =>
        LET recs == CsvRecords(OutText)
        IN  /\ Len(recs) = 2
            /\ \A i \in 1..Len(recs) : Len(recs[i]) = 12
            /\ recs[1][12] = <<"t", "a", "g", "s">>
            /\ recs[2][12] = JoinWith(<<",">>, tags)
            /\ (TextLines(OutText) = 2) <=> ~(\E i \in 1..Len(tags) : HasLineBreak(tags[i]))

C3_Witness ==
    /\ CsvWritten
    /\ tags = << <<"a", "\n", "a">> >>
    /\ TextLines(OutText) = 3
    /\ Len(CsvRecords(OutText)) = 2

(* the uptime field of the row *)
UptimeField == CsvRecords(OutText)[2][9]

(* C4 as stated: a not-a-number uptime is written as 0, and the uptime field
   is never negative. *)
C4_UptimeFieldNeverNegative ==
    CsvWritten =>
        /\ host.boot_raises => UptimeField = <<"0">>
        /\ UptimeField[1] # "-"

(* C4, amended: a not-a-number uptime is written as 0; any other uptime is
   written truncated toward zero to whole seconds, so the field is negative
   exactly when the boot time is a second or more after the current time. *)
C4_UptimeFieldTruncated ==
    CsvWritten =>
        LET u == host.now - host.boot
            abs(x) == IF x < 0 THEN -x ELSE x
        IN  IF host.boot_raises THEN UptimeField = <<"0">>
            ELSE /\ \E e \in (-MaxClock)..MaxClock :
                       /\ UptimeField = IntChars(e)
                       /\ 2 * abs(e) <= abs(u)
                       /\ abs(u) < 2 * abs(e) + 2
                       /\ e * u >= 0
                 /\ (UptimeField[1] = "-") <=> (u <= -2)

C4_Witness ==
    /\ CsvWritten
    /\ host.boot_raises
    /\ Get(data, "uptime_seconds").nan
    /\ UptimeField = <<"0">>

RECURSIVE PyEq(_, _)
(* a == b of Python, for values of the same types *)
PyEq(a, b) ==
    IF a.t # b.t THEN FALSE
    ELSE CASE a.t = "None" -> TRUE
           [] a.t = "float" -> ~a.nan /\ ~b.nan /\ a.v = b.v
           [] a.t = "list" ->
                Len(a.v) = Len(b.v) /\ \A i \in 1..Len(a.v) : PyEq(a.v[i], b.v[i])
           [] a.t = "dict" ->
                /\ {a.k[i] : i \in 1..Len(a.k)} = {b.k[i] : i \in 1..Len(b.k)}
                /\ Len(a.k) = Len(b.k)
                /\ \A i \in 1..Len(a.k) : PyEq(a.v[i], Get(b, a.k[i]))
           [] OTHER -> a.v = b.v

(* C5: the JSON export of any record collect_inventory returns, parsed,
   equals the record field for field. *)
C5_JsonRoundTrip == JsonWritten => PyEq(loads(OutText), data)

----------------------------------------------------------------------------
(* Claims about human_bytes *)

(* the largest i <= 4 with 1024^i <= n, 0 for n = 0 *)
UnitIndex(n) ==
    LET nz == {j \in 1..Len(n) : n[j] # 0}
    IN  IF nz = {} THEN 0 ELSE (CHOOSE j \in nz : \A x \in nz : j >= x) - 1

(* the places of a rendering: digits, a point, two digits, a space, a unit *)
PointAt(cs) == CHOOSE i \in 1..Len(cs) : cs[i] = "."
WellFormed(cs) ==
    /\ Cardinality({i \in 1..Len(cs) : cs[i] = "."}) = 1
    /\ PointAt(cs) >= 2
    /\ Len(cs) >= PointAt(cs) + 4
    /\ \A i \in 1..(PointAt(cs) - 1) : IsDigit(cs[i])
    /\ IsDigit(cs[PointAt(cs) + 1]) /\ IsDigit(cs[PointAt(cs) + 2])
    /\ cs[PointAt(cs) + 3] = " "
    /\ (cs[1] = "0" => PointAt(cs) = 2)
RenderedHundredths(cs) ==
    100 * CharsNat(SubSeq(cs, 1, PointAt(cs) - 1))
    + CharsNat(SubSeq(cs, PointAt(cs) + 1, PointAt(cs) + 2))
RenderedUnit(cs) == SubSeq(cs, PointAt(cs) + 4, Len(cs))

(* h / 100 is a nearest two-decimal value of n / 1024^k:
   (2h - 1) * 1024^k <= 200 * n <= (2h + 1) * 1024^k *)
NearestHundredth(n, k, h) ==
    LET m == Scale(n, 200)
        q == HighPart(m, k)
    IN  /\ q >= 2 * h - 1
        /\ \/ q < 2 * h + 1
           \/ q = 2 * h + 1 /\ \A j \in 1..k : m[j] = 0

(* h / 100 is n / 1024^k cut or rounded to two decimals:
   (h - 1) * 1024^k < 100 * n < (h + 1) * 1024^k *)
WithinOneHundredth(n, k, h) ==
    LET m == Scale(n, 100)
        q == HighPart(m, k)
    IN  q = h \/ (q = h - 1 /\ \E j \in 1..k : m[j] # 0)

(* C7: human_bytes(n) names the unit at index min(4, largest i with
   1024^i <= n) and renders n / 1024^k with exactly two decimal places;
   0 is "0.00 B", 1024 "1.00 KB", 1536 "1.50 KB", 1024^4 "1.00 TB", and
   1024 TB or more stays in TB.  The two decimals are those of a nearest
   hundredth while n < 2^53 (top limb below 8192), where float(n) is n; at
   any n they are within one hundredth of n / 1024^k. *)
C7_HumanBytesUnitAndValue ==
    (pc = "hb_done") =>
        /\ WellFormed(hb_out)
        /\ RenderedUnit(hb_out) = <<<<"B">>, <<"K", "B">>, <<"M", "B">>, <<"G", "B">>,
                                     <<"T", "B">>>>[UnitIndex(hb_n) + 1]
        /\ WithinOneHundredth(hb_n, UnitIndex(hb_n), RenderedHundredths(hb_out))
        /\ hb_n[5] < 8192 =>
              NearestHundredth(hb_n, UnitIndex(hb_n), RenderedHundredths(hb_out))
        /\ hb_n = <<0, 0, 0, 0, 0>> => hb_out = <<"0", ".", "0", "0", " ", "B">>
        /\ hb_n = <<0, 1, 0, 0, 0>> => hb_out = <<"1", ".", "0", "0", " ", "K", "B">>
        /\ hb_n = <<512, 1, 0, 0, 0>> => hb_out = <<"1", ".", "5", "0", " ", "K", "B">>
        /\ hb_n = <<0, 0, 0, 0, 1>> => hb_out = <<"1", ".", "0", "0", " ", "T", "B">>
        /\ hb_n[5] >= 1024 => RenderedUnit(hb_out) = <<"T", "B">>

C7_Witness ==
    /\ pc = "hb_done"
    /\ hb_n = <<512, 0, 0, 0, 1024>>
    /\ hb_out = <<"1", "0", "2", "4", ".", "0", "0", " ", "T", "B">>

=============================================================================
